---- MODULE Spec2Model ----
(***************************************************************************)
(* Model of app.py, the Streamlit crypto price tracker: the two memoized   *)
(* fetch functions (fetch_current_price, fetch_historical_prices), the     *)
(* script body that calls them (price tile, chart loop, summary loop) and  *)
(* the re-execution of the script (manual refresh, auto refresh, widget    *)
(* interaction).  Time is in seconds.  The upstream HTTP service is the    *)
(* environment: every network request draws its response and its latency  *)
(* from small sets.                                                        *)
(***************************************************************************)
EXTENDS Integers, Sequences, FiniteSets, TLC

VARIABLES
    clock,              \* seconds on the cache's timer
    cache,              \* st.cache_data storage: cache key -> entry
    coins,              \* multiselect value, in selection order
    currency,           \* selectbox value
    days,               \* slider value
    refresh_interval,   \* selectbox value
    manual_refresh,     \* button value of this run
    pc,                 \* position of the script
    idx,                \* position of the running for-loop in coins
    dfs,                \* chart loop's dict coin -> DataFrame
    summary_data,       \* summary loop's list of rows
    notices,            \* st.warning / st.error elements of this run
    lastCall,           \* record of the most recent fetch call
    netLog,             \* per argument tuple: the most recent network request
    chartSeen,          \* per coin: the chart loop's call of this run
    summarySeen,        \* per coin: the summary loop's call of this run
    histReqs,           \* per coin: history network requests of this run
    catalogue,          \* the price histories the upstream service can serve
    runs                \* script runs started so far

vars == <<clock, cache, coins, currency, days, refresh_interval, manual_refresh,
          pc, idx, dfs, summary_data, notices, lastCall, netLog, chartSeen,
          summarySeen, histReqs, catalogue, runs>>

----------------------------------------------------------------------------
(* Bounds of the model *)

MaxRuns == 2
MaxPrice == 2
MaxPoints == 2
MaxLatency == 10

(* Program constants *)

TTL_CURRENT == 600
TTL_HISTORY == 600
MIN_DAYS == 1
DEFAULT_DAYS == 7
SLEEP_EXTRA == 10
MS_PER_DAY == 86400000

CoinOptions == <<"bitcoin", "ethereum", "cardano", "dogecoin">>
CurrencyOptions == <<"usd", "eur", "cad", "gbp">>
RefreshOptions == <<0, 10, 30, 60>>

(* The widget values the model lets the user pick: a prefix of each        *)
(* option list, and the two ends and the default of the slider.            *)
Coins == {CoinOptions[i] : i \in 1..2}
Currencies == {CurrencyOptions[i] : i \in 1..2}
DayChoices == {MIN_DAYS, DEFAULT_DAYS}
Intervals == {RefreshOptions[i] : i \in 1..Len(RefreshOptions)}

----------------------------------------------------------------------------
(* Values *)

RECURSIVE GCD(_, _)
GCD(a, b) == IF b = 0 THEN a ELSE GCD(b, a % b)

Abs(n) == IF n < 0 THEN -n ELSE n
Sign(n) == IF n < 0 THEN -1 ELSE IF n = 0 THEN 0 ELSE 1

(* Float division n / d as an exact fraction in lowest terms.  Division by *)
(* zero of numpy scalars does not raise: it gives inf (1/0), -inf (-1/0)   *)
(* or nan (0/0).                                                           *)
Div(n, d) ==
    IF d = 0 THEN [num |-> Sign(n), den |-> 0]
    ELSE LET g == GCD(Abs(n), Abs(d))
         IN  [num |-> Sign(d) * (n \div g), den |-> Abs(d) \div g]

(* pd.DataFrame(): no columns, no rows *)
EmptyFrame == [columns |-> <<>>, rows |-> <<>>]

(* df.empty *)
IsEmpty(df) == Len(df.columns) = 0 \/ Len(df.rows) = 0

(* pd.to_datetime(ts, unit="ms") *)
ToDatetime(ts) == [day |-> ts \div MS_PER_DAY, ms |-> ts % MS_PER_DAY]

(* df = DataFrame(data["prices"], columns=["timestamp","price"]);          *)
(* df["date"] = to_datetime(df["timestamp"]); df[["date","price"]]         *)
MakeFrame(points) ==
    [columns |-> <<"date", "price">>,
     rows |-> [i \in 1..Len(points) |->
                 [date |-> ToDatetime(points[i][1]), price |-> points[i][2]]]]

(* df["price"] *)
PriceColumn(df) == [i \in 1..Len(df.rows) |-> df.rows[i].price]

(* str.title() on the coin ids of the multiselect *)
Title(c) ==
    CASE c = "bitcoin" -> "Bitcoin"
      [] c = "ethereum" -> "Ethereum"
      [] c = "cardano" -> "Cardano"
      [] c = "dogecoin" -> "Dogecoin"
      [] OTHER -> c

----------------------------------------------------------------------------
(* The upstream service *)

(* A response: status 0 stands for a transport failure (requests.get       *)
(* raises).  json is "invalid" (body is not JSON), "null" (body is the     *)
(* JSON null) or "object"; an object has or lacks "prices" (history) and   *)
(* holds a quote or not (current price, quote 0: the mapping {}).          *)
Resp(status, json, hasPrices, points, quote) ==
    [status |-> status, json |-> json, hasPrices |-> hasPrices,
     points |-> points, quote |-> quote]

NoResp == Resp(0, "none", FALSE, <<>>, 0)
TransportFailure == Resp(0, "invalid", FALSE, <<>>, 0)

ErrorStatuses == {404, 500}

PriceLists == UNION {[1..n -> 0..MaxPrice] : n \in 0..MaxPoints}

(* [epoch_ms, price] pairs, chronological *)
Points(ps) == [i \in 1..Len(ps) |-> <<(i - 1) * MS_PER_DAY, ps[i]>>]

StatusResponses ==
    {TransportFailure, Resp(429, "invalid", FALSE, <<>>, 0)}
    \cup {Resp(s, "invalid", FALSE, <<>>, 0) : s \in ErrorStatuses}

PriceResponses ==
    StatusResponses
    \cup {Resp(200, "invalid", FALSE, <<>>, 0)}
    \cup {Resp(200, "object", FALSE, <<>>, q) : q \in 0..1}

(* the few histories of the runs that exercise the cache *)
FewLists == {<<1>>, <<2, 1>>}

HistoryResponses ==
    StatusResponses
    \cup {Resp(200, "invalid", FALSE, <<>>, 0), Resp(200, "null", FALSE, <<>>, 0),
          Resp(200, "object", FALSE, <<>>, 0)}
    \cup {Resp(200, "object", TRUE, Points(ps), 0) : ps \in catalogue}

Latencies == {0, MaxLatency}

----------------------------------------------------------------------------
(* The fetch functions (the decorated bodies) *)

Return(value, msgs) == [raised |-> FALSE, value |-> value, msgs |-> msgs]

(* what a call that raises leaves behind: no value, no element *)
Raise(fn) ==
    [raised |-> TRUE,
     value |-> IF fn = "fetch_current_price" THEN {} ELSE EmptyFrame,
     msgs |-> <<>>]

(* response.json() of the simple/price endpoint: a mapping keyed by asset  *)
(* id, then by currency; as a set of <<key, value>> pairs                  *)
PriceJson(resp, coin_id, cur) ==
    IF resp.quote = 0 THEN {} ELSE {<<coin_id, {<<cur, resp.quote>>}>>}

(* fetch_current_price with the 429 branch reporting an error *)
fetch_current_price_429Error(coin_id, cur, resp) ==
    IF resp.status = 0 THEN Raise("fetch_current_price")
    ELSE IF resp.status = 200
    THEN IF resp.json = "invalid" THEN Raise("fetch_current_price")
         ELSE Return(PriceJson(resp, coin_id, cur), <<>>)
    ELSE IF resp.status = 429 THEN Return({}, <<"error">>)
    ELSE Return({}, <<"error">>)

fetch_current_price(coin_id, cur, resp) ==
    IF resp.status = 0 THEN Raise("fetch_current_price")
    ELSE IF resp.status = 200
    THEN IF resp.json = "invalid" THEN Raise("fetch_current_price")
         ELSE Return(PriceJson(resp, coin_id, cur), <<>>)
    ELSE IF resp.status = 429 THEN Return({}, <<"warning">>)
    ELSE Return({}, <<"error">>)

(* fetch_historical_prices with the else branch missing: any status but  *)
(* 200 is taken for a rate limit                                          *)
fetch_historical_prices_NoElse(coin_id, cur, d, resp) ==
    IF resp.status = 0 THEN Raise("fetch_historical_prices")
    ELSE IF resp.status = 200
    THEN IF resp.json = "invalid" THEN Raise("fetch_historical_prices")
         ELSE IF resp.json = "null" THEN Raise("fetch_historical_prices")
         ELSE IF resp.hasPrices THEN Return(MakeFrame(resp.points), <<>>)
         ELSE Return(EmptyFrame, <<>>)
    ELSE Return(EmptyFrame, <<"warning">>)

(* fetch_historical_prices with a body without "prices" falling into the  *)
(* error branch                                                           *)
fetch_historical_prices_NoPricesError(coin_id, cur, d, resp) ==
    IF resp.status = 0 THEN Raise("fetch_historical_prices")
    ELSE IF resp.status = 200 /\ resp.json = "invalid"
    THEN Raise("fetch_historical_prices")
    ELSE IF resp.status = 200 /\ resp.json = "null"
    THEN Raise("fetch_historical_prices")
    ELSE IF resp.status = 200 /\ resp.hasPrices
    THEN Return(MakeFrame(resp.points), <<>>)
    ELSE IF resp.status = 429 THEN Return(EmptyFrame, <<"warning">>)
    ELSE Return(EmptyFrame, <<"error">>)

fetch_historical_prices(coin_id, cur, d, resp) ==
    IF resp.status = 0 THEN Raise("fetch_historical_prices")
    ELSE IF resp.status = 200
    THEN IF resp.json = "invalid" THEN Raise("fetch_historical_prices")
         ELSE IF resp.json = "null" THEN Raise("fetch_historical_prices")
         ELSE IF resp.hasPrices THEN Return(MakeFrame(resp.points), <<>>)
         ELSE Return(EmptyFrame, <<>>)
    ELSE IF resp.status = 429 THEN Return(EmptyFrame, <<"warning">>)
    ELSE Return(EmptyFrame, <<"error">>)

Body(fn, coin_id, cur, d, resp) ==
    IF fn = "fetch_current_price" THEN fetch_current_price(coin_id, cur, resp)
    ELSE fetch_historical_prices(coin_id, cur, d, resp)

----------------------------------------------------------------------------
(* st.cache_data(ttl=600) *)

Ttl(fn) == IF fn = "fetch_current_price" THEN TTL_CURRENT ELSE TTL_HISTORY

(* the key of an entry: the function and the values of its arguments       *)
(* (fetch_current_price has no days argument: 0)                           *)
(* a key that leaves the currency out *)
CacheKey_NoCurrency(fn, coin_id, cur, d) == <<fn, coin_id, "", d>>

CacheKey(fn, coin_id, cur, d) == <<fn, coin_id, cur, d>>

(* an entry is stored when the function returns, and lives ttl seconds *)
Expires(fn, stored) == stored + Ttl(fn)

(* the comparison the wrong way round *)
IsFresh_Inverted(entry, now) == now >= entry.expires

IsFresh(entry, now) == now < entry.expires

(* every returned value is stored, with the elements the call emitted;     *)
(* an exception propagates to the caller and stores nothing                *)
(* storing only the calls that emitted no element *)
ShouldStore_OnlySilent(out) == ~out.raised /\ out.msgs = <<>>

ShouldStore(out) == ~out.raised

Put(f, k, v) == [x \in DOMAIN f \cup {k} |-> IF x = k THEN v ELSE f[x]]

(* how a request ended, for the log of requests *)
How(fn, resp, out) ==
    IF out.raised THEN "exception"
    ELSE IF resp.status = 429 THEN "rate_limited"
    ELSE IF resp.status # 200 THEN "error_status"
    ELSE IF fn = "fetch_historical_prices" /\ ~resp.hasPrices THEN "no_prices"
    ELSE "ok"

NoRequest(fn) ==
    [at |-> -1, how |-> "none", raised |-> FALSE, value |-> Raise(fn).value,
     points |-> <<>>]

NoCall ==
    [called |-> FALSE, fn |-> "", coin |-> "", currency |-> "", days |-> 0,
     site |-> "", at |-> 0, hit |-> FALSE, resp |-> NoResp, raised |-> FALSE,
     value |-> {}, notices |-> <<>>, expires |-> 0,
     prev |-> NoRequest("fetch_current_price")]

(* whether a call finds a fresh entry under its key *)
IsHit(fn, coin_id, cur, d) ==
    LET k == CacheKey(fn, coin_id, cur, d)
    IN  k \in DOMAIN cache /\ IsFresh(cache[k], clock)

(* what the network does for a call: nothing when the call is a hit *)
Served(fn, coin_id, cur, d, responses) ==
    IF IsHit(fn, coin_id, cur, d) THEN {<<NoResp, 0>>}
    ELSE responses \X Latencies

(* One call of a decorated function at time clock: a fresh entry is        *)
(* returned (its elements replayed) without running the body; otherwise    *)
(* the body runs, the request takes lat seconds, and the result is stored. *)
CachedCall(fn, coin_id, cur, d, site, resp, lat) ==
    LET k == CacheKey(fn, coin_id, cur, d)
        args == <<fn, coin_id, cur, d>>
        prev == IF args \in DOMAIN netLog THEN netLog[args] ELSE NoRequest(fn)
        hit == IsHit(fn, coin_id, cur, d)
        out == Body(fn, coin_id, cur, d, resp)
        done == clock + lat
        entry == [value |-> out.value, msgs |-> out.msgs,
                  expires |-> Expires(fn, done)]
        call == [called |-> TRUE, fn |-> fn, coin |-> coin_id, currency |-> cur,
                 days |-> d, site |-> site, at |-> clock, prev |-> prev]
    IN  IF hit
        THEN [cache |-> cache, clock |-> clock, netLog |-> netLog,
              call |-> call @@ [hit |-> TRUE, resp |-> NoResp, raised |-> FALSE,
                                value |-> cache[k].value,
                                notices |-> cache[k].msgs,
                                expires |-> cache[k].expires]]
        ELSE [cache |-> IF ShouldStore(out) THEN Put(cache, k, entry) ELSE cache,
              clock |-> done,
              netLog |-> Put(netLog, args,
                             [at |-> clock, how |-> How(fn, resp, out),
                              raised |-> out.raised, value |-> out.value,
                              points |-> resp.points]),
              call |-> call @@ [hit |-> FALSE, resp |-> resp, raised |-> out.raised,
                                value |-> out.value, notices |-> out.msgs,
                                expires |-> IF ShouldStore(out)
                                            THEN entry.expires ELSE 0]]

(* what the logs of a run keep of a call *)
Seen(call) ==
    [at |-> call.at, hit |-> call.hit, raised |-> call.raised,
     value |-> call.value, expires |-> call.expires]

(* the elements a call puts on the page *)
Emitted(call) ==
    [i \in 1..Len(call.notices) |-> [level |-> call.notices[i], by |-> call.fn]]

PageNotice(level) == <<[level |-> level, by |-> "page"]>>

----------------------------------------------------------------------------
(* The summary row *)

(* a maximum that never compares *)
Max_First(s) == s[1]

RECURSIVE Max(_)
Max(s) ==
    IF Len(s) = 1 THEN s[1]
    ELSE LET m == Max(Tail(s)) IN IF s[1] >= m THEN s[1] ELSE m

RECURSIVE Min(_)
Min(s) ==
    IF Len(s) = 1 THEN s[1]
    ELSE LET m == Min(Tail(s)) IN IF s[1] <= m THEN s[1] ELSE m

RECURSIVE Sum(_)
Sum(s) == IF Len(s) = 0 THEN 0 ELSE s[1] + Sum(Tail(s))

Mean(s) == Div(Sum(s), Len(s))

(* the change from the lowest to the highest price *)
price_change_ByValue(s) == Div((Max(s) - Min(s)) * 100, Min(s))

(* (iloc[-1] - iloc[0]) / iloc[0] * 100 *)
price_change(s) == Div((s[Len(s)] - s[1]) * 100, s[1])

SummaryRow(coin, df) ==
    LET s == PriceColumn(df)
    IN  [coin |-> Title(coin), max_price |-> Max(s), min_price |-> Min(s),
         avg_price |-> Mean(s), price_change |-> price_change(s)]

----------------------------------------------------------------------------
(* The script *)

(* a run of the script from its first line *)
StartRun ==
    /\ runs' = runs + 1
    /\ pc' = "price"
    /\ idx' = 1
    /\ dfs' = <<>>
    /\ summary_data' = <<>>
    /\ notices' = <<>>
    /\ lastCall' = NoCall
    /\ chartSeen' = <<>>
    /\ summarySeen' = <<>>
    /\ histReqs' = [c \in Coins |-> 0]

InitWith(histories) ==
    /\ clock = 0
    /\ cache = <<>>
    /\ coins = <<CoinOptions[1]>>
    /\ currency = CurrencyOptions[1]
    /\ days = DEFAULT_DAYS
    /\ refresh_interval = RefreshOptions[1]
    /\ manual_refresh = FALSE
    /\ pc = "price"
    /\ idx = 1
    /\ dfs = <<>>
    /\ summary_data = <<>>
    /\ notices = <<>>
    /\ lastCall = NoCall
    /\ netLog = <<>>
    /\ chartSeen = <<>>
    /\ summarySeen = <<>>
    /\ histReqs = [c \in Coins |-> 0]
    /\ catalogue = histories
    /\ runs = 1

Init == InitWith(FewLists)

(* the tile shows a price when the mapping holds the coin *)
HasCoin(price_data, coin) == \E kv \in price_data : kv[1] = coin

(* left column: coins[0] of an empty selection raises IndexError *)
PriceTile ==
    /\ pc = "price"
    /\ IF Len(coins) = 0
       THEN /\ pc' = "failed"
            /\ UNCHANGED <<clock, cache, netLog, lastCall, notices>>
       ELSE \E net \in Served("fetch_current_price", coins[1], currency, 0,
                               PriceResponses) :
              LET r == CachedCall("fetch_current_price", coins[1], currency, 0,
                                  "price", net[1], net[2])
              IN  /\ clock' = r.clock
                  /\ cache' = r.cache
                  /\ netLog' = r.netLog
                  /\ lastCall' = r.call
                  /\ pc' = IF r.call.raised THEN "failed" ELSE "chart"
                  /\ notices' =
                       IF r.call.raised THEN notices
                       ELSE notices \o Emitted(r.call)
                            \o (IF HasCoin(r.call.value, coins[1]) THEN <<>>
                                ELSE PageNotice("warning"))
    /\ UNCHANGED <<coins, currency, days, refresh_interval, manual_refresh, idx,
                   dfs, summary_data, chartSeen, summarySeen, histReqs,
                   catalogue, runs>>

(* right column: one iteration of the loop that fills dfs *)
ChartLoop ==
    /\ pc = "chart"
    /\ idx <= Len(coins)
    /\ \E net \in Served("fetch_historical_prices", coins[idx], currency, days,
                          HistoryResponses) :
         LET coin == coins[idx]
             r == CachedCall("fetch_historical_prices", coin, currency, days,
                             "chart", net[1], net[2])
         IN  /\ clock' = r.clock
             /\ cache' = r.cache
             /\ netLog' = r.netLog
             /\ lastCall' = r.call
             /\ pc' = IF r.call.raised THEN "failed" ELSE "chart"
             /\ notices' = notices \o Emitted(r.call)
             /\ dfs' = IF ~r.call.raised /\ ~IsEmpty(r.call.value)
                       THEN Put(dfs, coin, r.call.value) ELSE dfs
             /\ chartSeen' = Put(chartSeen, coin, Seen(r.call))
             /\ histReqs' = [histReqs EXCEPT
                               ![coin] = @ + (IF r.call.hit THEN 0 ELSE 1)]
    /\ idx' = idx + 1
    /\ UNCHANGED <<coins, currency, days, refresh_interval, manual_refresh,
                   summary_data, summarySeen, catalogue, runs>>

(* the chart of dfs, or the notice that there is none *)
ChartRender ==
    /\ pc = "chart"
    /\ idx > Len(coins)
    /\ notices' = IF DOMAIN dfs # {} THEN notices
                  ELSE notices \o PageNotice("warning")
    /\ pc' = "summary"
    /\ idx' = 1
    /\ UNCHANGED <<clock, cache, coins, currency, days, refresh_interval,
                   manual_refresh, dfs, summary_data, lastCall, netLog,
                   chartSeen, summarySeen, histReqs, catalogue, runs>>

(* one iteration of the loop that fills summary_data *)
SummaryLoop ==
    /\ pc = "summary"
    /\ idx <= Len(coins)
    /\ \E net \in Served("fetch_historical_prices", coins[idx], currency, days,
                          HistoryResponses) :
         LET coin == coins[idx]
             r == CachedCall("fetch_historical_prices", coin, currency, days,
                             "summary", net[1], net[2])
         IN  /\ clock' = r.clock
             /\ cache' = r.cache
             /\ netLog' = r.netLog
             /\ lastCall' = r.call
             /\ pc' = IF r.call.raised THEN "failed" ELSE "summary"
             /\ notices' = notices \o Emitted(r.call)
             /\ summary_data' =
                  IF ~r.call.raised /\ ~IsEmpty(r.call.value)
                  THEN Append(summary_data, SummaryRow(coin, r.call.value))
                  ELSE summary_data
             /\ summarySeen' = Put(summarySeen, coin, Seen(r.call))
             /\ histReqs' = [histReqs EXCEPT
                               ![coin] = @ + (IF r.call.hit THEN 0 ELSE 1)]
    /\ idx' = idx + 1
    /\ UNCHANGED <<coins, currency, days, refresh_interval, manual_refresh,
                   dfs, chartSeen, catalogue, runs>>

(* st.write(summary_df) when there are rows; then the refresh logic *)
SummaryRender ==
    /\ pc = "summary"
    /\ idx > Len(coins)
    /\ pc' = "refresh"
    /\ UNCHANGED <<clock, cache, coins, currency, days, refresh_interval,
                   manual_refresh, idx, dfs, summary_data, notices, lastCall,
                   netLog, chartSeen, summarySeen, histReqs, catalogue, runs>>

(* if manual_refresh: st.rerun() -- the button is False in the next run *)
ManualRerun ==
    /\ pc = "refresh"
    /\ manual_refresh
    /\ runs <= MaxRuns
    /\ manual_refresh' = FALSE
    /\ StartRun
    /\ UNCHANGED <<clock, cache, coins, currency, days, refresh_interval, netLog,
                   catalogue>>

(* if refresh_interval > 0: sleep(refresh_interval + 10); st.rerun() *)
AutoRerun ==
    /\ pc = "refresh"
    /\ ~manual_refresh
    /\ refresh_interval > 0
    /\ runs <= MaxRuns
    /\ clock' = clock + refresh_interval + SLEEP_EXTRA
    /\ StartRun
    /\ UNCHANGED <<cache, coins, currency, days, refresh_interval,
                   manual_refresh, netLog, catalogue>>

(* neither: the script ends and the page waits for the user *)
ScriptEnd ==
    /\ pc = "refresh"
    /\ ~manual_refresh
    /\ refresh_interval = 0
    /\ pc' = "idle"
    /\ UNCHANGED <<clock, cache, coins, currency, days, refresh_interval,
                   manual_refresh, idx, dfs, summary_data, notices, lastCall,
                   netLog, chartSeen, summarySeen, histReqs, catalogue, runs>>

(* the selections one change of the multiselect leads to *)
Without(s, c) == SelectSeq(s, LAMBDA x : x # c)
InSeq(s, c) == \E i \in 1..Len(s) : s[i] = c
CoinChanges ==
    {Append(coins, c) : c \in {x \in Coins : ~InSeq(coins, x)}}
    \cup {Without(coins, c) : c \in {x \in Coins : InSeq(coins, x)}}

(* how long the user leaves the page alone before touching a widget *)
ThinkTimes == {0, TTL_HISTORY - MaxLatency}

(* the script is in its sleep before the automatic rerun *)
Asleep == pc = "refresh" /\ ~manual_refresh /\ refresh_interval > 0

(* The user changes one widget, or presses the button, while the script    *)
(* is over (ended or failed) or asleep: the script runs again with the     *)
(* new value, a sleeping script once its sleep is over.                    *)
UserInteraction ==
    /\ pc \in {"idle", "failed"} \/ Asleep
    /\ runs < MaxRuns
    /\ IF Asleep THEN clock' = clock + refresh_interval + SLEEP_EXTRA
       ELSE \E t \in ThinkTimes : clock' = clock + t
    /\ \/ /\ coins' \in CoinChanges
          /\ manual_refresh' = FALSE
          /\ UNCHANGED <<currency, days, refresh_interval>>
       \/ /\ currency' \in Currencies \ {currency}
          /\ manual_refresh' = FALSE
          /\ UNCHANGED <<coins, days, refresh_interval>>
       \/ /\ days' \in DayChoices \ {days}
          /\ manual_refresh' = FALSE
          /\ UNCHANGED <<coins, currency, refresh_interval>>
       \/ /\ refresh_interval' \in Intervals \ {refresh_interval}
          /\ manual_refresh' = FALSE
          /\ UNCHANGED <<coins, currency, days>>
       \/ /\ manual_refresh' = TRUE
          /\ UNCHANGED <<coins, currency, days, refresh_interval>>
    /\ StartRun
    /\ UNCHANGED <<cache, netLog, catalogue>>

Next ==
    \/ PriceTile
    \/ ChartLoop
    \/ ChartRender
    \/ SummaryLoop
    \/ SummaryRender
    \/ ManualRerun
    \/ AutoRerun
    \/ ScriptEnd
    \/ UserInteraction

Spec == Init /\ [][Next]_vars

(* One run of the script over every history the upstream can hold: the   *)
(* specification of the claims about a single call and its summary row.   *)
InitRun == InitWith(PriceLists)

NextRun ==
    \/ PriceTile
    \/ ChartLoop
    \/ ChartRender
    \/ SummaryLoop
    \/ SummaryRender
    \/ ScriptEnd

SpecRun == InitRun /\ [][NextRun]_vars

----------------------------------------------------------------------------
(* Properties *)

Failures == {"rate_limited", "error_status", "no_prices"}

(* the most recent call went to the network *)
WentToNetwork == lastCall.called /\ ~lastCall.hit

(* the most recent call returned the empty mapping / the empty DataFrame *)
ReturnedEmpty ==
    /\ ~lastCall.raised
    /\ IF lastCall.fn = "fetch_current_price" THEN lastCall.value = {}
       ELSE lastCall.value = EmptyFrame

(* the most recent call was made inside the window of the previous        *)
(* network request with the same arguments                                *)
InWindow ==
    /\ lastCall.called
    /\ lastCall.prev.at >= 0
    /\ lastCall.at < lastCall.prev.at + Ttl(lastCall.fn)

HasRow(coin) == \E i \in 1..Len(summary_data) : summary_data[i].coin = Title(coin)

(* the upstream points the most recent call's value was made from *)
UpstreamPoints ==
    IF lastCall.hit THEN lastCall.prev.points ELSE lastCall.resp.points

(* C1: once a call with some arguments has gone to the network at time t,  *)
(* every later call with the same arguments before t + 600 is served from  *)
(* the cache (no network request) and returns the identical result.        *)
C1_OneRequestPerWindow ==
    InWindow =>
        /\ lastCall.hit
        /\ ~lastCall.raised
        /\ lastCall.value = lastCall.prev.value

(* C2: cache entries are independent per key: a call served from the cache *)
(* gets the value a request with exactly its function, coin, currency and  *)
(* days stored, and the first call with given arguments goes to the        *)
(* network.                                                                *)
C2_KeysIndependent ==
    lastCall.called =>
        /\ lastCall.hit =>
             /\ lastCall.prev.at >= 0
             /\ ~lastCall.prev.raised
             /\ lastCall.value = lastCall.prev.value
        /\ lastCall.prev.at < 0 => ~lastCall.hit

(* C2 witness: two history entries of one coin that differ in currency or  *)
(* days hold different values, and the call was served the one of its key  *)
C2_Witness ==
    /\ lastCall.called /\ lastCall.hit
    /\ lastCall.fn = "fetch_historical_prices"
    /\ \E k \in DOMAIN cache :
         /\ k[1] = "fetch_historical_prices"
         /\ k[2] = lastCall.coin
         /\ (k[3] # lastCall.currency \/ k[4] # lastCall.days)
         /\ IsFresh(cache[k], clock)
         /\ cache[k].value # lastCall.value

(* C3: the fetch functions never raise to their caller.                    *)
C3_FetchNeverRaises == lastCall.called => ~lastCall.raised

(* C4: a 429 response makes either fetch function return its empty result *)
(* and emit exactly one warning, and no error.                             *)
C4_RateLimitWarns ==
    (WentToNetwork /\ lastCall.resp.status = 429) =>
        /\ ReturnedEmpty
        /\ lastCall.notices = <<"warning">>

(* C4 witness: a history request answered 429, after a price request      *)
(* answered 429                                                            *)
C4_Witness ==
    /\ WentToNetwork
    /\ lastCall.resp.status = 429
    /\ lastCall.fn = "fetch_historical_prices"
    /\ \E a \in DOMAIN netLog :
         a[1] = "fetch_current_price" /\ netLog[a].how = "rate_limited"

(* C5: a response with a status other than 200 and 429 makes either fetch  *)
(* function return its empty result and emit one error, and no warning.    *)
C5_ErrorStatusErrors ==
    (WentToNetwork /\ lastCall.resp.status \notin {0, 200, 429}) =>
        /\ ReturnedEmpty
        /\ lastCall.notices = <<"error">>

(* C5 witness: a history request answered 404 or 500, after a price       *)
(* request answered 404 or 500                                             *)
C5_Witness ==
    /\ WentToNetwork
    /\ lastCall.resp.status \in ErrorStatuses
    /\ lastCall.fn = "fetch_historical_prices"
    /\ \E a \in DOMAIN netLog :
         a[1] = "fetch_current_price" /\ netLog[a].how = "error_status"

(* C6: a 200 response whose JSON object has no "prices" makes              *)
(* fetch_historical_prices return the empty DataFrame with no warning and  *)
(* no error, and the summary loop appends no row for a coin whose call     *)
(* returned that value.                                                    *)
C6_NoPricesSilentlyEmpty ==
    /\ (/\ WentToNetwork
        /\ lastCall.fn = "fetch_historical_prices"
        /\ lastCall.resp.status = 200
        /\ lastCall.resp.json = "object"
        /\ ~lastCall.resp.hasPrices)
       => (ReturnedEmpty /\ lastCall.notices = <<>>)
    /\ (/\ lastCall.called
        /\ lastCall.site = "summary"
        /\ \/ (lastCall.hit /\ lastCall.prev.how = "no_prices")
           \/ (/\ ~lastCall.hit /\ lastCall.resp.status = 200
               /\ lastCall.resp.json = "object" /\ ~lastCall.resp.hasPrices))
       => ~HasRow(lastCall.coin)

(* C6 witness: the summary loop is served the empty frame of a 200        *)
(* without "prices"; no row, no notice of the fetch function              *)
C6_Witness ==
    /\ lastCall.called
    /\ lastCall.site = "summary"
    /\ lastCall.hit
    /\ lastCall.prev.how = "no_prices"
    /\ lastCall.value = EmptyFrame
    /\ summary_data = <<>>
    /\ \A i \in 1..Len(notices) : notices[i].by # "fetch_historical_prices"

(* the row the most recent summary-loop call produced *)
LastRow == summary_data[Len(summary_data)]

RowMade ==
    /\ lastCall.called
    /\ lastCall.site = "summary"
    /\ ~lastCall.raised
    /\ ~IsEmpty(lastCall.value)

(* C7: the row of a non-empty series has max >= p >= min for every price p *)
(* of the series, and max and min are prices of the series.                *)
C7_MaxMinBound ==
    RowMade =>
        LET s == [i \in 1..Len(UpstreamPoints) |-> UpstreamPoints[i][2]]
        IN  /\ Len(s) > 0
            /\ \A i \in 1..Len(s) :
                 LastRow.max_price >= s[i] /\ s[i] >= LastRow.min_price
            /\ \E i \in 1..Len(s) : s[i] = LastRow.max_price
            /\ \E i \in 1..Len(s) : s[i] = LastRow.min_price

(* C7 witness: a row whose maximum is not the first price *)
C7_Witness ==
    /\ RowMade
    /\ Len(UpstreamPoints) >= 2
    /\ LastRow.max_price > UpstreamPoints[1][2]
    /\ LastRow.min_price < LastRow.max_price

(* C8: the row of a non-empty series whose first price is not 0 has percent *)
(* change (last - first) / first * 100, first and last by position in the   *)
(* series the upstream returned; for a one-point series it is 0.            *)
C8_PercentChange ==
    (RowMade /\ UpstreamPoints[1][2] # 0) =>
        LET first == UpstreamPoints[1][2]
            last == UpstreamPoints[Len(UpstreamPoints)][2]
            ch == LastRow.price_change
        IN  /\ ch.den > 0
            /\ ch.num * first = (last - first) * 100 * ch.den
            /\ Len(UpstreamPoints) = 1 => ch = [num |-> 0, den |-> 1]

(* C8 witness: a falling series, first price above the last *)
C8_Witness ==
    /\ RowMade
    /\ Len(UpstreamPoints) >= 2
    /\ UpstreamPoints[1][2] > UpstreamPoints[Len(UpstreamPoints)][2]
    /\ LastRow.price_change.num < 0

(* C9: after a request that ended in a 429, another status than 200, or a  *)
(* 200 without "prices", every call with the same arguments inside the     *)
(* 600 seconds is served from the cache and returns the empty result.      *)
C9_FailuresMemoized ==
    (InWindow /\ lastCall.prev.how \in Failures) =>
        /\ lastCall.hit
        /\ ReturnedEmpty

(* C9 witness: a later run is served the failure of an earlier run *)
C9_Witness ==
    /\ InWindow
    /\ lastCall.prev.how = "rate_limited"
    /\ lastCall.hit
    /\ runs >= 2
    /\ lastCall.at > lastCall.prev.at

(* C10: in a run of the script, for every selected coin the summary      *)
(* loop's call is served from the cache and sees the chart loop's data,   *)
(* the coin has a row iff it has a chart series, and the run makes at     *)
(* most one history request for the coin.                                 *)
C10_SummarySeesChartData ==
    pc = "refresh" =>
        \A i \in 1..Len(coins) :
            LET c == coins[i]
            IN  /\ summarySeen[c].hit
                /\ summarySeen[c].value = chartSeen[c].value
                /\ HasRow(c) <=> c \in DOMAIN dfs
                /\ histReqs[c] <= 1

(* C10 as amended: the same, for every coin whose summary-loop call is    *)
(* made before the expiry of the cache entry that the chart loop's call   *)
(* stored or was served.                                                  *)
C10_SummarySeesChartDataWhileFresh ==
    \A c \in DOMAIN summarySeen :
        (c \in DOMAIN chartSeen /\ summarySeen[c].at < chartSeen[c].expires) =>
            /\ summarySeen[c].hit
            /\ ~summarySeen[c].raised
            /\ summarySeen[c].value = chartSeen[c].value
            /\ HasRow(c) <=> c \in DOMAIN dfs
            /\ histReqs[c] <= 1

(* C10 witness: a run over two coins, one with a series and a row, one    *)
(* with neither, each fetched once                                        *)
C10_Witness ==
    /\ pc = "refresh"
    /\ Len(coins) = 2
    /\ \A i \in 1..2 :
         /\ summarySeen[coins[i]].hit
         /\ summarySeen[coins[i]].at < chartSeen[coins[i]].expires
         /\ histReqs[coins[i]] = 1
    /\ HasRow(coins[1]) /\ coins[1] \in DOMAIN dfs
    /\ ~HasRow(coins[2]) /\ coins[2] \notin DOMAIN dfs

====
